---------------------------- MODULE Spec2Model ----------------------------
(***************************************************************************)
(* Model of the native detection engine of Environment-Detector:           *)
(*   app/src/main/cpp/anti_hook.cpp       caller-integrity gate            *)
(*   app/src/main/cpp/security_native.cpp signal probes and JNI entries    *)
(*                                                                         *)
(* Text is modelled as a sequence of tokens (a token is an atomic piece of *)
(* text, e.g. "/" or "data"); strstr / std::string::find are modelled as   *)
(* contiguous-subsequence search over tokens.  The operating-system state  *)
(* a call reads is an input of that call (it is re-read on every call).    *)
(***************************************************************************)
EXTENDS Integers, Sequences, FiniteSets, TLC

VARIABLES g_jvm, g_context, pc, op, sys, ret, called, gate, trace, handles

vars == <<g_jvm, g_context, pc, op, sys, ret, called, gate, trace, handles>>

---------------------------------------------------------------------------
(* Text primitives *)

\* "com.grtsinry43.environmentdetector", the package literal of both files
PKG == "com.grtsinry43.environmentdetector"

NUL == "\\0"

\* strstr(hay, needle) != nullptr, std::string::find(needle) != npos
Contains(hay, needle) ==
    \E i \in 0..(Len(hay) - Len(needle)) :
        SubSeq(hay, i + 1, i + Len(needle)) = needle

\* std::string::find(needle) == 0
StartsWith(hay, needle) ==
    /\ Len(needle) <= Len(hay)
    /\ SubSeq(hay, 1, Len(needle)) = needle

\* the C string held in a buffer: the text before the first NUL
RECURSIVE CStr(_)
CStr(buf) ==
    IF buf = <<>> \/ Head(buf) = NUL THEN <<>>
    ELSE <<Head(buf)>> \o CStr(Tail(buf))

\* a text file: open says whether it could be opened, lines is its content
NoFile == [open |-> FALSE, lines |-> <<>>]
File(ls) == [open |-> TRUE, lines |-> ls]

\* whether some line read by std::getline contains one of the needles
AnyLineContains(file, needles) ==
    /\ file.open
    /\ \E i \in 1..Len(file.lines) :
          \E n \in needles : Contains(file.lines[i], n)

---------------------------------------------------------------------------
(* anti_hook.cpp : CallerIntegrityGate *)

\* the loop bound of the stack walk (i < 20)
StackLimit == 20

\* Outcomes of the frame loop from index i (0-based).  A null frame or a
\* null class name is passed to CallObjectMethod / GetStringUTFChars /
\* strstr unchecked: undefined behaviour, modelled as every outcome (abort,
\* or garbage text that matches or does not match).
RECURSIVE WalkStack(_, _)
WalkStack(stack, i) ==
    IF ~(i < Len(stack) /\ i < StackLimit) THEN {"notfound"}
    ELSE LET f == stack[i + 1] IN
         IF f.null \/ f.nameNull
         THEN {"fault", "found"} \cup WalkStack(stack, i + 1)
         ELSE IF Contains(f.name, <<PKG>>) THEN {"found"}
              ELSE WalkStack(stack, i + 1)

\* verifyCallerIntegrity(env): the set of possible outcomes
\* ("true", "false", "fault")
verifyCallerIntegrity(env, jvm) ==
    IF env.null \/ jvm = "null" THEN {"false"}
    ELSE IF ~env.getVmOk \/ env.vm # jvm THEN {"false"}
    ELSE IF ~env.threadClass THEN {"false"}
    ELSE IF ~env.methods THEN {"false"}
    ELSE IF env.stackNull THEN {"true"}
    ELSE {IF w = "found" THEN "true"
          ELSE IF w = "notfound" THEN "false" ELSE "fault" :
              w \in WalkStack(env.stack, 0)}

\* fgets(processName, 256, fp): the first line of the file (inputs are
\* shorter than the 255-character buffer); an empty read leaves the zeroed
\* buffer
Fgets(file) == IF Len(file.lines) = 0 THEN <<>> ELSE file.lines[1]

\* verifyProcessIntegrity()
verifyProcessIntegrity(cmdline) ==
    IF ~cmdline.open THEN FALSE
    ELSE Contains(CStr(Fgets(cmdline)), <<PKG>>)

\* the two needles of verifySoLoadPath
DataAppDir == <<"/", "data", "/", "app", "/">>

\* verifySoLoadPath(); dl is the result of dladdr on the function itself
verifySoLoadPath(dl) ==
    IF ~dl.ok THEN FALSE
    ELSE IF dl.fnameNull THEN FALSE
    ELSE IF ~Contains(dl.fname, DataAppDir) \/ ~Contains(dl.fname, <<PKG>>)
         THEN FALSE
    ELSE TRUE

\* verifyNativeCall(env): the set of possible outcomes
verifyNativeCall(g, jvm) ==
    IF ~verifyProcessIntegrity(g.cmdline) THEN {"false"}
    ELSE IF ~verifySoLoadPath(g.dl) THEN {"false"}
    ELSE {IF c = "true" THEN "true"
          ELSE IF c = "false" THEN "false" ELSE "fault" :
              c \in verifyCallerIntegrity(g.env, jvm)}

---------------------------------------------------------------------------
(* security_native.cpp : SignalProbes *)

\* bitwise AND of two naturals (the & of the C source)
RECURSIVE BitAnd(_, _)
BitAnd(a, b) ==
    IF a = 0 \/ b = 0 THEN 0
    ELSE (a % 2) * (b % 2) + 2 * BitAnd(a \div 2, b \div 2)

\* INT_MAX of the int that std::stoi converts to
IntMax == 2147483647

Digits == {"0", "1", "2", "3", "4", "5", "6", "7", "8", "9"}

DigitVal(c) ==
    CASE c = "0" -> 0 [] c = "1" -> 1 [] c = "2" -> 2 [] c = "3" -> 3
      [] c = "4" -> 4 [] c = "5" -> 5 [] c = "6" -> 6 [] c = "7" -> 7
      [] c = "8" -> 8 [] c = "9" -> 9

RECURSIVE SkipSpace(_)
SkipSpace(s) ==
    IF s # <<>> /\ Head(s) \in {" ", "\t"} THEN SkipSpace(Tail(s)) ELSE s

\* the digits s[1..] accumulated onto acc; -1 when the magnitude leaves the
\* range of int (slack is 1 for a negative number, whose range is one wider)
RECURSIVE AccDigits(_, _, _)
AccDigits(s, acc, slack) ==
    IF s = <<>> \/ Head(s) \notin Digits THEN acc
    ELSE LET d == DigitVal(Head(s)) IN
         IF acc > IntMax \div 10
            \/ (acc = IntMax \div 10 /\ d - slack > IntMax % 10)
         THEN -1
         ELSE AccDigits(Tail(s), acc * 10 + d, slack)

\* std::stoi(s): throws std::invalid_argument when no digit can be
\* converted and std::out_of_range when the value does not fit an int;
\* value is the magnitude converted (only its being zero is used)
Stoi(s) ==
    LET t == SkipSpace(s)
        signed == t # <<>> /\ Head(t) \in {"-", "+"}
        neg == t # <<>> /\ Head(t) = "-"
        u == IF signed THEN Tail(t) ELSE t
    IN  IF u = <<>> \/ Head(u) \notin Digits
        THEN [throws |-> TRUE, value |-> 0]
        ELSE LET v == AccDigits(u, 0, IF neg THEN 1 ELSE 0) IN
             IF v < 0 THEN [throws |-> TRUE, value |-> 0]
             ELSE [throws |-> FALSE, value |-> v]

\* checkTracerPid(): "true", "false", or "fault" when std::stoi throws (the
\* exception is not caught anywhere and leaves the JNI entry point)
checkTracerPid(status) ==
    IF ~status.open THEN "false"
    ELSE LET hits == {i \in 1..Len(status.lines) :
                         StartsWith(status.lines[i], <<"TracerPid:">>)}
         IN  IF hits = {} THEN "false"
             ELSE LET i == CHOOSE j \in hits : \A k \in hits : j <= k
                      r == Stoi(Tail(status.lines[i]))
                  IN  IF r.throws THEN "fault"
                      ELSE IF r.value # 0 THEN "true" ELSE "false"

\* checkPtraceAttach(); ptraceFails: ptrace(PTRACE_TRACEME) returns -1
checkPtraceAttach(status, ptraceFails) ==
    LET t == checkTracerPid(status) IN
    IF t = "fault" THEN "fault"
    ELSE IF t # "true" THEN "false"
    ELSE IF ptraceFails THEN "true" ELSE "false"

FridaPorts ==
    {<<"697A">>, <<"697B">>, <<"697C">>, <<"697D">>,
     <<"6992">>, <<"6993">>, <<"6995">>}

\* variant of checkFridaPort that reports evidence when neither listing
\* can be opened
checkFridaPort_FailClosed(tcp4, tcp6) ==
    IF ~tcp4.open /\ ~tcp6.open THEN TRUE
    ELSE AnyLineContains(tcp4, FridaPorts) \/ AnyLineContains(tcp6, FridaPorts)

\* checkFridaPort()
checkFridaPort(tcp4, tcp6) ==
    IF ~tcp4.open /\ ~tcp6.open THEN FALSE
    ELSE IF AnyLineContains(tcp4, FridaPorts) THEN TRUE
    ELSE IF AnyLineContains(tcp6, FridaPorts) THEN TRUE
    ELSE FALSE

\* std::getline(commFile, threadName): the first line, empty when the read
\* fails
GetLine(file) == IF Len(file.lines) = 0 THEN <<>> ELSE file.lines[1]

FridaThreadNames ==
    {<<"gmain">>, <<"gum-js-loop">>, <<"gdbus">>, <<"pool-frida">>}

\* checkFridaThreads(); task.entries are the readdir entries, each with
\* dot (its name starts with '.') and its comm file
checkFridaThreads(task) ==
    IF ~task.open THEN FALSE
    ELSE \E i \in 1..Len(task.entries) :
            LET e == task.entries[i] IN
            /\ ~e.dot
            /\ e.comm.open
            /\ \E n \in FridaThreadNames : Contains(GetLine(e.comm), n)

FridaFiles ==
    {"/data/local/tmp/frida-server", "/data/local/tmp/frida",
     "/data/local/tmp/re.frida.server"}

\* checkFridaFiles(); exists is the set of paths stat() succeeds on
checkFridaFiles(exists) == \E f \in FridaFiles : f \in exists

\* checkFridaInMemory()
checkFridaInMemory(maps) ==
    IF ~maps.open THEN FALSE
    ELSE AnyLineContains(maps, {<<"frida">>, <<"linjector">>})

\* a 32-bit value 0xb3b2b1b0 as the four bytes it occupies in memory
\* (little-endian: the unsigned int read through the byte pointer)
Word(b3, b2, b1, b0) == <<b0, b1, b2, b3>>

\* instr & mask on 32-bit values
And32(w, m) == [i \in 1..4 |-> BitAnd(w[i], m[i])]

\* variant of checkInlineHook that compares the whole top byte with the
\* branch opcode
checkInlineHook_ByteMask(sym) ==
    /\ sym.resolved
    /\ \/ And32(sym.bytes, Word(255, 0, 0, 0)) = Word(20, 0, 0, 0)
       \/ And32(sym.bytes, Word(255, 0, 0, 0)) = Word(88, 0, 0, 0)

\* checkInlineHook(); sym is the result of dlsym(RTLD_DEFAULT, "open") and
\* the four bytes at that address
checkInlineHook(sym) ==
    IF ~sym.resolved THEN FALSE
    ELSE LET instr == sym.bytes IN
         IF And32(instr, Word(252, 0, 0, 0)) = Word(20, 0, 0, 0) THEN TRUE
         ELSE IF And32(instr, Word(255, 0, 0, 0)) = Word(88, 0, 0, 0) THEN TRUE
         ELSE FALSE

SuPaths ==
    {"/system/bin/su", "/system/xbin/su", "/sbin/su", "/su/bin/su",
     "/data/local/su", "/data/local/bin/su", "/data/local/xbin/su",
     "/vendor/bin/su"}

\* S_IXUSR, octal 0100
S_IXUSR == 64

\* variant of checkSuBinary that takes existence alone as evidence
checkSuBinary_ExistenceOnly(fs) == \E p \in SuPaths : fs[p].exists

\* checkSuBinary(); fs[p].exists: stat(p) succeeds, fs[p].mode: st_mode
checkSuBinary(fs) ==
    \E p \in SuPaths : fs[p].exists /\ BitAnd(fs[p].mode, S_IXUSR) # 0

\* checkRootProperties(); props holds what __system_property_get leaves in
\* value for each name (the empty text for a property that cannot be read)
checkRootProperties(props) ==
    IF props.debuggable = <<"1">> THEN TRUE
    ELSE IF props.secure = <<"0">> THEN TRUE
    ELSE IF Contains(props.tags, <<"test-keys">>) THEN TRUE
    ELSE FALSE

SystemDirs == {"/system", "/system/bin", "/system/xbin"}

\* checkDangerousPermissions(); writable: the paths access(p, W_OK) allows
checkDangerousPermissions(writable) == \E p \in SystemDirs : p \in writable

SuspiciousLibs ==
    {<<"frida">>, <<"xposed">>, <<"substrate">>, <<"libriru">>, <<"lsposed">>}

\* checkLoadedLibraries()
checkLoadedLibraries(maps) ==
    IF ~maps.open THEN FALSE
    ELSE AnyLineContains(maps, SuspiciousLibs)

\* bool detected = false; if (probe) detected = true;
Accumulate(flag, probe) == IF probe THEN TRUE ELSE flag

\* variant of detectFrida that leaves the inline-hook probe out
detectFrida_NoInlineHook(h) ==
    \/ checkFridaPort(h.tcp4, h.tcp6)
    \/ checkFridaThreads(h.task)
    \/ checkFridaFiles(h.fridaFiles)
    \/ checkFridaInMemory(h.maps)

\* detectFrida(); h is the system state a hook check reads
detectFrida(h) ==
    LET d0 == FALSE
        d1 == Accumulate(d0, checkFridaPort(h.tcp4, h.tcp6))
        d2 == Accumulate(d1, checkFridaThreads(h.task))
        d3 == Accumulate(d2, checkFridaFiles(h.fridaFiles))
        d4 == Accumulate(d3, checkFridaInMemory(h.maps))
        d5 == Accumulate(d4, checkInlineHook(h.open))
    IN  d5

\* the whole content of a file: its lines joined by newlines
RECURSIVE Content(_)
Content(ls) ==
    IF ls = <<>> THEN <<>>
    ELSE Head(ls) \o <<"\n">> \o Content(Tail(ls))

\* checkEmulatorCpu()
checkEmulatorCpu(cpuinfo) ==
    IF ~cpuinfo.open THEN FALSE
    ELSE LET content == Content(cpuinfo.lines) IN
         IF \E n \in {<<"Intel">>, <<"AMD">>, <<"GenuineIntel">>} :
                Contains(content, n)
         THEN TRUE
         ELSE IF \E n \in {<<"goldfish">>, <<"ranchu">>, <<"vbox">>} :
                     Contains(content, n)
              THEN TRUE
              ELSE FALSE

QemuFiles ==
    {"/dev/socket/qemud", "/dev/qemu_pipe",
     "/system/lib/libc_malloc_debug_qemu.so", "/sys/qemu_trace",
     "/system/bin/qemu-props"}

\* checkQemuFiles()
checkQemuFiles(exists) == \E f \in QemuFiles : f \in exists

SuspiciousStrs ==
    {<<"frida">>, <<"gdb">>, <<"gdbserver">>, <<"lldb">>, <<"ida">>,
     <<"substrate">>}

\* checkSuspiciousStrings(): std::getline(cmdlineFile, cmdline, '\0')
checkSuspiciousStrings(cmdline) ==
    IF ~cmdline.open THEN FALSE
    ELSE LET first == CStr(Content(cmdline.lines)) IN
         \E n \in SuspiciousStrs : Contains(first, n)

\* checkLdPreload(); v.set: getenv("LD_PRELOAD") is not null
checkLdPreload(v) == v.set /\ Len(v.value) > 0

\* the threshold of checkAbnormalFd
FdThreshold == 200

\* checkAbnormalFd(); fd.count: the entries of /proc/self/fd not starting
\* with '.'
checkAbnormalFd(fd) ==
    IF ~fd.open THEN FALSE
    ELSE fd.count > FdThreshold

---------------------------------------------------------------------------
(* security_native.cpp : JNI entry points (DetectionAggregator) *)

\* a C++ bool as the jboolean handed back
Bool(b) == IF b THEN "true" ELSE "false"

RootProbes == {"checkSuBinary", "checkRootProperties",
               "checkDangerousPermissions"}

HookProbes == {"checkLoadedLibraries", "checkFridaPort", "checkFridaThreads",
               "checkFridaFiles", "checkFridaInMemory", "checkInlineHook",
               "checkSuspiciousStrings", "checkLdPreload"}

\* variant of nativeCheckRoot that runs the probes whatever the gate says
nativeCheckRoot_GateIgnored(g, r, jvm) ==
    {IF v = "fault" THEN [out |-> "fault", called |-> {}, gate |-> v]
     ELSE [out |-> Bool(checkSuBinary(r.su) \/ checkRootProperties(r.props)
                          \/ checkDangerousPermissions(r.writable)),
           called |-> RootProbes, gate |-> v] :
        v \in verifyNativeCall(g, jvm)}

\* nativeCheckRoot(env): the set of possible outcomes; out is the value
\* returned ("fault": the call does not return), called the probes run,
\* gate what verifyNativeCall returned
nativeCheckRoot(g, r, jvm) ==
    {IF v = "false" THEN [out |-> "true", called |-> {}, gate |-> v]
     ELSE IF v = "fault" THEN [out |-> "fault", called |-> {}, gate |-> v]
     ELSE LET i0 == FALSE
              i1 == Accumulate(i0, checkSuBinary(r.su))
              i2 == Accumulate(i1, checkRootProperties(r.props))
              i3 == Accumulate(i2, checkDangerousPermissions(r.writable))
          IN  [out |-> Bool(i3), called |-> RootProbes, gate |-> v] :
        v \in verifyNativeCall(g, jvm)}

\* nativeCheckHook()
nativeCheckHook(h) ==
    LET i0 == FALSE
        i1 == Accumulate(i0, checkLoadedLibraries(h.maps))
        i2 == Accumulate(i1, detectFrida(h))
        i3 == Accumulate(i2, checkSuspiciousStrings(h.cmdline))
        i4 == Accumulate(i3, checkLdPreload(h.ldPreload))
    IN  [out |-> Bool(i4), called |-> HookProbes, gate |-> "none"]

\* nativeCheckDebugger()
nativeCheckDebugger(d) ==
    LET t == checkTracerPid(d.status) IN
    IF t = "fault"
    THEN [out |-> "fault", called |-> {"checkTracerPid"}, gate |-> "none"]
    ELSE [out |-> Bool(Accumulate(FALSE, t = "true")),
          called |-> {"checkTracerPid"}, gate |-> "none"]

\* nativeCheckEmulator()
nativeCheckEmulator(e) ==
    LET i0 == FALSE
        i1 == Accumulate(i0, checkEmulatorCpu(e.cpuinfo))
        i2 == Accumulate(i1, checkQemuFiles(e.qemuFiles))
    IN  [out |-> Bool(i2), called |-> {"checkEmulatorCpu", "checkQemuFiles"},
         gate |-> "none"]

---------------------------------------------------------------------------
(* File and directory handles: what each operation acquires and releases *)

\* A handle event: fopen / opendir / the constructor of a std::ifstream
\* that opens acquires the handle h; fclose / closedir / the destructor
\* of the stream releases it.
Acquire(h) == <<[act |-> "acquire", h |-> h]>>
Release(h) == <<[act |-> "release", h |-> h]>>

\* held with one occurrence of h taken out (the latest one)
RECURSIVE RemoveOne(_, _)
RemoveOne(held, h) ==
    IF held = <<>> THEN <<>>
    ELSE IF held[Len(held)] = h THEN SubSeq(held, 1, Len(held) - 1)
    ELSE Append(RemoveOne(SubSeq(held, 1, Len(held) - 1), h),
                held[Len(held)])

\* the handles held after the events of tr, starting from held
RECURSIVE Replay(_, _)
Replay(tr, held) ==
    IF tr = <<>> THEN held
    ELSE LET e == Head(tr) IN
         IF e.act = "acquire"
         THEN Replay(Tail(tr), Append(held, e.h))
         ELSE Replay(Tail(tr), RemoveOne(held, e.h))

\* the handles an operation has left open when it is left
Held(tr) == Replay(tr, <<>>)

\* the number of handles a trace acquires
RECURSIVE Acquired(_)
Acquired(tr) ==
    IF tr = <<>> THEN 0
    ELSE (IF Head(tr).act = "acquire" THEN 1 ELSE 0) + Acquired(Tail(tr))

\* a std::ifstream local of a function: the constructor opens the file
\* (no handle when the open fails), the destructor closes it on every
\* return of the function
StreamScope(f, h) ==
    IF f.open THEN Acquire(h) \o Release(h) ELSE <<>>

\* verifyProcessIntegrity(): fopen, the early return on a null FILE*,
\* fclose straight after fgets and before either verdict
verifyProcessIntegrityTrace(cmdline) ==
    IF ~cmdline.open THEN <<>>
    ELSE Acquire("fp") \o Release("fp")

\* verifyNativeCall(): verifyProcessIntegrity is always the first
\* sub-check; dladdr and the JNI calls of the other two take no file or
\* directory handle
verifyNativeCallTrace(g) == verifyProcessIntegrityTrace(g.cmdline)

\* checkTracerPid(): statusFile is closed by its destructor on each
\* return; when std::stoi throws the function is left by the exception
\* with the stream still open
checkTracerPidTrace(status) ==
    IF ~status.open THEN <<>>
    ELSE IF checkTracerPid(status) = "fault" THEN Acquire("statusFile")
    ELSE Acquire("statusFile") \o Release("statusFile")

\* checkPtraceAttach(): the handles of its call of checkTracerPid
checkPtraceAttachTrace(status) == checkTracerPidTrace(status)

\* checkFridaPort(): both streams are constructed first and destroyed in
\* reverse order on each of the four returns
checkFridaPortTrace(tcp4, tcp6) ==
    (IF tcp4.open THEN Acquire("tcp4File") ELSE <<>>)
    \o (IF tcp6.open THEN Acquire("tcp6File") ELSE <<>>)
    \o (IF tcp6.open THEN Release("tcp6File") ELSE <<>>)
    \o (IF tcp4.open THEN Release("tcp4File") ELSE <<>>)

\* the readdir loop of checkFridaThreads from entry i on: commFile lives
\* for one iteration; on a match closedir comes before the return (and
\* the destructor of commFile after it), otherwise closedir follows the
\* loop
RECURSIVE ThreadLoopTrace(_, _)
ThreadLoopTrace(entries, i) ==
    IF i > Len(entries) THEN Release("taskDir")
    ELSE LET e == entries[i] IN
         IF e.dot THEN ThreadLoopTrace(entries, i + 1)
         ELSE IF ~e.comm.open THEN ThreadLoopTrace(entries, i + 1)
         ELSE IF \E n \in FridaThreadNames : Contains(GetLine(e.comm), n)
         THEN Acquire("commFile") \o Release("taskDir")
              \o Release("commFile")
         ELSE Acquire("commFile") \o Release("commFile")
              \o ThreadLoopTrace(entries, i + 1)

\* checkFridaThreads() returning on a match with the directory left open
checkFridaThreadsTrace_NoCloseOnMatch(task) ==
    IF ~task.open THEN <<>>
    ELSE LET t == Acquire("taskDir") \o ThreadLoopTrace(task.entries, 1)
         IN  IF checkFridaThreads(task)
             THEN SelectSeq(t, LAMBDA e : e # Release("taskDir")[1])
             ELSE t

\* checkFridaThreads(): opendir, the early return on a null DIR*, then
\* the loop
checkFridaThreadsTrace(task) ==
    IF ~task.open THEN <<>>
    ELSE Acquire("taskDir") \o ThreadLoopTrace(task.entries, 1)

\* checkFridaInMemory()
checkFridaInMemoryTrace(maps) == StreamScope(maps, "mapsFile")

\* checkLoadedLibraries()
checkLoadedLibrariesTrace(maps) == StreamScope(maps, "mapsFile")

\* detectFrida(): the five probes in turn; stat and dlsym take no handle
detectFridaTrace(h) ==
    checkFridaPortTrace(h.tcp4, h.tcp6)
    \o checkFridaThreadsTrace(h.task)
    \o checkFridaInMemoryTrace(h.maps)

\* checkEmulatorCpu()
checkEmulatorCpuTrace(cpuinfo) == StreamScope(cpuinfo, "cpuinfoFile")

\* checkSuspiciousStrings()
checkSuspiciousStringsTrace(cmdline) == StreamScope(cmdline, "cmdlineFile")

\* checkAbnormalFd(): opendir, the early return on a null DIR*, closedir
\* after the counting loop and before the threshold test
checkAbnormalFdTrace(fd) ==
    IF ~fd.open THEN <<>>
    ELSE Acquire("dir") \o Release("dir")

\* nativeCheckRoot(): the gate first; stat, __system_property_get and
\* access of the root probes take no handle
nativeCheckRootTrace(g) == verifyNativeCallTrace(g)

\* nativeCheckHook(): getenv takes no handle
nativeCheckHookTrace(h) ==
    checkLoadedLibrariesTrace(h.maps)
    \o detectFridaTrace(h)
    \o checkSuspiciousStringsTrace(h.cmdline)

\* nativeCheckDebugger()
nativeCheckDebuggerTrace(d) == checkTracerPidTrace(d.status)

\* nativeCheckEmulator(): stat of checkQemuFiles takes no handle
nativeCheckEmulatorTrace(e) == checkEmulatorCpuTrace(e.cpuinfo)

---------------------------------------------------------------------------
(* Inputs: the callers and the system states the calls are run against *)

VMs == {"vm1", "vm2"}
Contexts == {"ctx1", "ctx2"}

\* frames beyond the walk's limit that the deepest stacks carry
MaxExtraFrames == 1

OtherFrame == [null |-> FALSE, nameNull |-> FALSE,
               name |-> <<"java.lang.reflect.Method">>]
AppFrame == [null |-> FALSE, nameNull |-> FALSE,
             name |-> <<PKG, ".security.NativeSecurityDetector">>]
NullFrame == [null |-> TRUE, nameNull |-> FALSE, name |-> <<>>]
NullNameFrame == [null |-> FALSE, nameNull |-> TRUE, name |-> <<>>]

Depths == {0, 1} \cup ((StackLimit - 1)..(StackLimit + MaxExtraFrames - 1))

\* k foreign frames, then nothing or one frame of each kind
Stacks ==
    {[i \in 1..k |-> OtherFrame] \o t :
        k \in Depths,
        t \in {<<>>, <<AppFrame>>, <<NullFrame>>, <<NullNameFrame>>}}

JniEnv(vm, s) ==
    [null |-> FALSE, vm |-> vm, getVmOk |-> TRUE, threadClass |-> TRUE,
     methods |-> TRUE, stackNull |-> FALSE, stack |-> s]

JniEnvs ==
    {[JniEnv("vm1", <<>>) EXCEPT !.null = TRUE]}
    \cup {JniEnv(vm, s) : vm \in VMs, s \in Stacks}
    \cup UNION {{[JniEnv(vm, <<AppFrame>>) EXCEPT !.getVmOk = FALSE],
                 [JniEnv(vm, <<AppFrame>>) EXCEPT !.threadClass = FALSE],
                 [JniEnv(vm, <<AppFrame>>) EXCEPT !.methods = FALSE],
                 [JniEnv(vm, <<>>) EXCEPT !.stackNull = TRUE]} : vm \in VMs}

CmdLines ==
    {NoFile,
     File(<<<<PKG, NUL>>>>),
     File(<<<<"com.other.app", NUL>>>>),
     File(<<<<"app_process", NUL, PKG, NUL>>>>)}

Dl(path) == [ok |-> TRUE, fnameNull |-> FALSE, fname |-> path]

InstalledPath ==
    <<"/", "data", "/", "app", "/", PKG, "-1", "/", "lib", "/",
      "libsecurity.so">>
CopiedPath ==
    <<"/", "sdcard", "/", "data", "/", "app", "/", PKG, "-1", "/", "lib",
      "/", "libsecurity.so">>
ForeignPath == <<"/", "data", "/", "local", "/", "tmp", "/", "libsecurity.so">>

DlInfos ==
    {[ok |-> FALSE, fnameNull |-> FALSE, fname |-> <<>>],
     [ok |-> TRUE, fnameNull |-> TRUE, fname |-> <<>>],
     Dl(InstalledPath), Dl(CopiedPath), Dl(ForeignPath)}

GateEnvs == [cmdline : CmdLines, dl : DlInfos, env : JniEnvs]

Absent == [exists |-> FALSE, mode |-> 0]
\* st_mode of a regular file: rw-r--r-- and rwxr-xr-x
Plain == [exists |-> TRUE, mode |-> 420]
Executable == [exists |-> TRUE, mode |-> 493]

NoSu == [p \in SuPaths |-> Absent]

SuStates ==
    {NoSu,
     [NoSu EXCEPT !["/system/bin/su"] = Plain],
     [NoSu EXCEPT !["/system/xbin/su"] = Executable],
     [NoSu EXCEPT !["/system/bin/su"] = Plain, !["/sbin/su"] = Executable]}

CleanProps == [debuggable |-> <<"0">>, secure |-> <<"1">>,
               tags |-> <<"release-keys">>]

PropStates ==
    {CleanProps,
     [debuggable |-> <<>>, secure |-> <<>>, tags |-> <<>>],
     [CleanProps EXCEPT !.debuggable = <<"1">>],
     [CleanProps EXCEPT !.secure = <<"0">>],
     [CleanProps EXCEPT !.tags = <<"dev-keys", ",", "test-keys">>]}

RootEnvs == [su : SuStates, props : PropStates,
             writable : {{}, {"/system/xbin"}}]

MapsFiles ==
    {NoFile,
     File(<<<<"/system/lib64/", "libc.so">>>>),
     File(<<<<"/system/lib64/", "libc.so">>,
            <<"/data/local/tmp/", "frida", "-agent-64.so">>>>),
     File(<<<<"/system/framework/", "xposed", "bridge.jar">>>>),
     File(<<<<"/memfd:", "linjector">>>>)}

TcpFiles ==
    {NoFile,
     File(<<<<"0100007F:", "1F90", " 00000000:0000 0A">>>>),
     File(<<<<"0100007F:", "1F90", " 00000000:0000 0A">>,
            <<"0100007F:", "6992", " 00000000:0000 0A">>>>)}

Thread(name) == [dot |-> FALSE, comm |-> File(<<name>>)]
DotEntry == [dot |-> TRUE, comm |-> NoFile]

TaskDirs ==
    {[open |-> FALSE, entries |-> <<>>],
     [open |-> TRUE, entries |-> <<DotEntry, Thread(<<"main">>)>>],
     [open |-> TRUE,
      entries |-> <<DotEntry, [dot |-> FALSE, comm |-> NoFile]>>],
     [open |-> TRUE,
      entries |-> <<DotEntry, Thread(<<"main">>), Thread(<<"gmain">>)>>]}

Unresolved == [resolved |-> FALSE, bytes |-> Word(0, 0, 0, 0)]
Sym(w) == [resolved |-> TRUE, bytes |-> w]

\* stp x29, x30, [sp, #-16]!  /  b #0x40  /  ldr x16, #8
OpenSyms ==
    {Unresolved, Sym(Word(169, 191, 123, 253)), Sym(Word(20, 0, 0, 16)),
     Sym(Word(88, 0, 0, 80))}

LdPreloads ==
    {[set |-> FALSE, value |-> <<>>], [set |-> TRUE, value |-> <<>>],
     [set |-> TRUE, value |-> <<"/data/local/tmp/", "libhook.so">>]}

HookEnvs ==
    [maps : MapsFiles, tcp4 : TcpFiles, tcp6 : TcpFiles, task : TaskDirs,
     fridaFiles : {{}, {"/data/local/tmp/frida-server"}}, open : OpenSyms,
     cmdline : {NoFile, File(<<<<PKG, NUL>>>>),
                File(<<<<"/data/local/tmp/", "frida", "-server", NUL>>>>)},
     ldPreload : LdPreloads]

Status(rest) ==
    File(<<<<"Name:", "\t", "main">>, <<"TracerPid:">> \o rest,
           <<"Uid:", "\t", "10123">>>>)

StatusFiles ==
    {NoFile,
     File(<<<<"Name:", "\t", "main">>>>),
     Status(<<"\t", "0">>),
     Status(<<"\t", "4", "2", "1">>),
     Status(<<>>),
     Status(<<"\t">>),
     Status(<<"\t", "n", "/", "a">>),
     Status(<<"\t", "2", "1", "4", "7", "4", "8", "3", "6", "4", "8">>)}

FdDirs ==
    {[open |-> FALSE, count |-> 0], [open |-> TRUE, count |-> 12],
     [open |-> TRUE, count |-> FdThreshold + 1]}

DebugEnvs == [status : StatusFiles, fd : FdDirs, ptraceFails : BOOLEAN]

CpuInfos ==
    {NoFile,
     File(<<<<"Hardware", "\t: ", "Qualcomm">>>>),
     File(<<<<"vendor_id", "\t: ", "GenuineIntel">>>>),
     File(<<<<"Hardware", "\t: ", "ranchu">>>>)}

EmuEnvs == [cpuinfo : CpuInfos, qemuFiles : {{}, {"/dev/qemu_pipe"}}]

---------------------------------------------------------------------------
(* The state machine *)

NoCall == [none |-> TRUE]

Init ==
    /\ g_jvm = "null"
    /\ g_context = "null"
    /\ pc = "idle"
    /\ op = "none"
    /\ sys = NoCall
    /\ ret = "none"
    /\ called = {}
    /\ gate = "none"
    /\ trace = <<>>
    /\ handles = 0

\* initAntiHook(env, clazz, context)
InitAntiHook ==
    /\ pc = "idle"
    /\ \E vm \in VMs, ctx \in Contexts :
          /\ g_jvm' = vm
          /\ g_context' = ctx
          /\ sys' = [vm |-> vm, context |-> ctx]
    /\ pc' = "returned"
    /\ op' = "initAntiHook"
    /\ ret' = "none"
    /\ called' = {}
    /\ gate' = "none"
    /\ trace' = <<>>
    /\ UNCHANGED handles

\* a JNI entry point run to its end: it returns out, or it never returns
\* (an uncaught C++ exception or a JNI abort ends the process).  tr is
\* the handle events of the call; the handles it leaves open stay open.
\* Whether the stack is unwound, and the destructors of the locals run,
\* before an uncaught exception ends the process is implementation-
\* defined: both outcomes are kept.
Finish(name, input, o, tr) ==
    /\ pc' = IF o.out = "fault" THEN "crashed" ELSE "returned"
    /\ op' = name
    /\ sys' = input
    /\ ret' = o.out
    /\ called' = o.called
    /\ gate' = o.gate
    /\ trace' = tr
    /\ handles' \in IF o.out = "fault"
                     THEN {handles, handles + Len(Held(tr))}
                     ELSE {handles + Len(Held(tr))}
    /\ UNCHANGED <<g_jvm, g_context>>

CheckRoot ==
    /\ pc = "idle"
    /\ \E g \in GateEnvs, r \in RootEnvs :
          \E o \in nativeCheckRoot(g, r, g_jvm) :
             Finish("checkRoot", [gate |-> g, root |-> r], o,
                    nativeCheckRootTrace(g))

CheckHook ==
    /\ pc = "idle"
    /\ \E h \in HookEnvs : Finish("checkHook", h, nativeCheckHook(h),
                               nativeCheckHookTrace(h))

CheckDebugger ==
    /\ pc = "idle"
    /\ \E d \in DebugEnvs :
          Finish("checkDebugger", d, nativeCheckDebugger(d),
                 nativeCheckDebuggerTrace(d))

CheckEmulator ==
    /\ pc = "idle"
    /\ \E e \in EmuEnvs :
          Finish("checkEmulator", e, nativeCheckEmulator(e),
                 nativeCheckEmulatorTrace(e))

\* the caller takes the returned value and is free to call again
ReturnToCaller ==
    /\ pc = "returned"
    /\ pc' = "idle"
    /\ op' = "none"
    /\ sys' = NoCall
    /\ ret' = "none"
    /\ called' = {}
    /\ gate' = "none"
    /\ trace' = <<>>
    /\ UNCHANGED <<g_jvm, g_context, handles>>

Next ==
    \/ InitAntiHook
    \/ CheckRoot
    \/ CheckHook
    \/ CheckDebugger
    \/ CheckEmulator
    \/ ReturnToCaller

Spec == Init /\ [][Next]_vars

---------------------------------------------------------------------------
(* Properties of the root check and of the gate *)

\* the probes of the root check, each evaluated on the system state r
RootEvidence(r) ==
    [checkSuBinary |-> checkSuBinary(r.su),
     checkRootProperties |-> checkRootProperties(r.props),
     checkDangerousPermissions |-> checkDangerousPermissions(r.writable)]

\* a sub-check of the gate fails on the inputs of the last checkRoot
SubCheckFails ==
    \/ ~verifyProcessIntegrity(sys.gate.cmdline)
    \/ ~verifySoLoadPath(sys.gate.dl)
    \/ verifyCallerIntegrity(sys.gate.env, g_jvm) = {"false"}

\* C1: whenever one of the three gate sub-checks fails (process identity,
\* module load path, or runtime/call-stack identity), checkRoot returns
\* true and none of the root probes has been evaluated, whatever they would
\* have returned.
C1_GateFailureShortCircuits ==
    (op = "checkRoot" /\ (SubCheckFails \/ gate = "false"))
        => /\ pc = "returned"
           /\ ret = "true"
           /\ called \cap RootProbes = {}

\* C1 witness: only the load-path sub-check fails, every root probe would
\* have returned false, and checkRoot returned true.
C1_Witness ==
    /\ op = "checkRoot"
    /\ verifyProcessIntegrity(sys.gate.cmdline)
    /\ ~verifySoLoadPath(sys.gate.dl)
    /\ verifyCallerIntegrity(sys.gate.env, g_jvm) = {"true"}
    /\ \A p \in RootProbes : ~RootEvidence(sys.root)[p]
    /\ ret = "true"
    /\ called = {}

\* the runtime handle is missing, or the stack-trace lookup yields nothing
\* in a call that gets as far as asking for it
HandleMissing == sys.gate.env.null \/ g_jvm = "null"

StackUnresolved ==
    /\ ~HandleMissing
    /\ sys.gate.env.getVmOk /\ sys.gate.env.vm = g_jvm
    /\ sys.gate.env.threadClass /\ sys.gate.env.methods
    /\ sys.gate.env.stackNull

\* C2 (as claimed): a missing runtime handle and an unobtainable call stack
\* are gate failures, and checkRoot then returns true.
C2_FailClosed ==
    (op = "checkRoot" /\ (HandleMissing \/ StackUnresolved))
        => (gate # "true" /\ ret = "true")

\* C3 (as claimed): once captured, the runtime handle and the context
\* reference are never replaced.
C3_WrittenOnce ==
    [][g_jvm # "null" => (g_jvm' = g_jvm /\ g_context' = g_context)]_vars

\* C4 (as claimed): every entry point returns a boolean; no call ends in an
\* exception or fault.
C4_Total == pc # "crashed"

\* none of the nearest StackLimit frames is a well-formed frame of the
\* application package (no frame at all when the stack is null)
NoAppFrameNear(env) ==
    \/ env.stackNull
    \/ \A i \in 1..Len(env.stack) :
          i <= StackLimit =>
             ~(/\ ~env.stack[i].null
               /\ ~env.stack[i].nameNull
               /\ Contains(env.stack[i].name, <<PKG>>))

\* the last checkRoot got as far as the runtime/call-stack sub-check
CallerChecked ==
    /\ op = "checkRoot"
    /\ verifyProcessIntegrity(sys.gate.cmdline)
    /\ verifySoLoadPath(sys.gate.dl)

\* C5 (as claimed): the runtime/call-stack sub-check fails when the handle
\* of the call differs from the captured one, and fails when none of the
\* nearest 20 frames belongs to the application package.
C5_CallerIntegrity ==
    (CallerChecked /\ ~sys.gate.env.null
        /\ (sys.gate.env.vm # g_jvm \/ NoAppFrameNear(sys.gate.env)))
        => gate = "false"

\* every frame the walk looks at is a frame with a class name
WellFormedNear(env) ==
    /\ ~env.stackNull
    /\ \A i \in 1..Len(env.stack) :
          i <= StackLimit => (~env.stack[i].null /\ ~env.stack[i].nameNull)

\* On a stack that was obtained and whose nearest frames are well formed
\* the sub-check does fail on a handle mismatch or when no frame among the
\* nearest 20 is of the application package.
CallerIntegrityOnWellFormedStacks ==
    (CallerChecked /\ ~sys.gate.env.null /\ WellFormedNear(sys.gate.env)
        /\ (sys.gate.env.vm # g_jvm \/ NoAppFrameNear(sys.gate.env)))
        => gate = "false"

---------------------------------------------------------------------------
(* Properties of the probes and of the aggregation *)

\* the probes of the hook check, each evaluated on the system state h
HookEvidence(h) ==
    [checkLoadedLibraries |-> checkLoadedLibraries(h.maps),
     checkFridaPort |-> checkFridaPort(h.tcp4, h.tcp6),
     checkFridaThreads |-> checkFridaThreads(h.task),
     checkFridaFiles |-> checkFridaFiles(h.fridaFiles),
     checkFridaInMemory |-> checkFridaInMemory(h.maps),
     checkInlineHook |-> checkInlineHook(h.open),
     checkSuspiciousStrings |-> checkSuspiciousStrings(h.cmdline),
     checkLdPreload |-> checkLdPreload(h.ldPreload)]

\* no source a root probe reads can be read: stat() and access() fail on
\* every path and no property can be read
RootUnreadable(r) ==
    /\ \A p \in SuPaths : ~r.su[p].exists
    /\ r.props = [debuggable |-> <<>>, secure |-> <<>>, tags |-> <<>>]
    /\ r.writable = {}

\* the hook probes report no evidence from a source that cannot be read
HookProbesFailOpen(h) ==
    /\ (~h.maps.open) =>
          (~checkLoadedLibraries(h.maps) /\ ~checkFridaInMemory(h.maps))
    /\ (~h.tcp4.open /\ ~h.tcp6.open) => (~checkFridaPort(h.tcp4, h.tcp6))
    /\ (~h.task.open
          \/ \A i \in 1..Len(h.task.entries) : ~h.task.entries[i].comm.open)
          => (~checkFridaThreads(h.task))
    /\ (h.fridaFiles = {}) => (~checkFridaFiles(h.fridaFiles))
    /\ (~h.open.resolved) => (~checkInlineHook(h.open))
    /\ (~h.cmdline.open) => (~checkSuspiciousStrings(h.cmdline))
    /\ (~h.ldPreload.set) => (~checkLdPreload(h.ldPreload))

\* nothing a hook check reads can be read, and there is no other evidence
HookUnreadable(h) ==
    /\ ~h.maps.open /\ ~h.tcp4.open /\ ~h.tcp6.open
    /\ ~h.task.open /\ h.fridaFiles = {} /\ ~h.cmdline.open
    /\ ~checkInlineHook(h.open) /\ ~checkLdPreload(h.ldPreload)

\* C6: a probe whose source cannot be opened or read reports no evidence,
\* and with every probed source unreadable and no other evidence (no inline
\* hook, no LD_PRELOAD) checkHook, checkDebugger and checkEmulator return
\* false.
C6_UnreadableIsNoEvidence ==
    /\ (op = "checkHook") =>
          (/\ HookProbesFailOpen(sys)
           /\ (HookUnreadable(sys) => (pc = "returned" /\ ret = "false")))
    /\ (op = "checkDebugger") =>
          (/\ (~sys.status.open) =>
                 (/\ checkTracerPid(sys.status) = "false"
                  /\ checkPtraceAttach(sys.status, sys.ptraceFails) = "false"
                  /\ pc = "returned"
                  /\ ret = "false")
           /\ (~sys.fd.open) => (~checkAbnormalFd(sys.fd)))
    /\ (op = "checkEmulator") =>
          (/\ (~sys.cpuinfo.open) => (~checkEmulatorCpu(sys.cpuinfo))
           /\ (sys.qemuFiles = {}) => (~checkQemuFiles(sys.qemuFiles))
           /\ (~sys.cpuinfo.open /\ sys.qemuFiles = {})
                 => (pc = "returned" /\ ret = "false"))
    /\ (op = "checkRoot" /\ RootUnreadable(sys.root)) =>
          (\A p \in RootProbes : ~RootEvidence(sys.root)[p])

\* C6 witness: a hook check run with every probed source unreadable, the
\* symbol unresolvable and no preload has returned false.
C6_Witness ==
    /\ op = "checkHook"
    /\ ~sys.maps.open /\ ~sys.tcp4.open /\ ~sys.tcp6.open
    /\ ~sys.task.open /\ sys.fridaFiles = {} /\ ~sys.cmdline.open
    /\ ~sys.open.resolved /\ ~sys.ldPreload.set
    /\ pc = "returned"
    /\ ret = "false"

\* C7: every verdict that is returned is the disjunction of exactly its
\* contributing probes: the eight hook probes for checkHook, the tracer
\* probe alone for checkDebugger (neither the active-attach probe nor the
\* descriptor count enters), the CPU signature and the support files for
\* checkEmulator, and the three root probes for checkRoot when the gate
\* passes.
C7_VerdictIsDisjunction ==
    (pc = "returned") =>
       (/\ (op = "checkHook") =>
              (ret = Bool(\E p \in HookProbes : HookEvidence(sys)[p]))
        /\ (op = "checkDebugger") =>
              (ret = checkTracerPid(sys.status))
        /\ (op = "checkEmulator") =>
              (ret = Bool(\E b \in {checkQemuFiles(sys.qemuFiles),
                                    checkEmulatorCpu(sys.cpuinfo)} : b))
        /\ (op = "checkRoot" /\ gate = "true") =>
              (ret = Bool(\E p \in RootProbes : RootEvidence(sys.root)[p])))

\* C7 witness: a debugger check returned false although the descriptor
\* count is above the threshold and a self-trace would fail.
C7_Witness ==
    /\ op = "checkDebugger"
    /\ pc = "returned"
    /\ checkAbnormalFd(sys.fd)
    /\ sys.ptraceFails
    /\ ret = "false"

---------------------------------------------------------------------------
(* Properties of the file and directory handles *)

\* every handle the operation with the events tr acquired is released
\* when the operation is left
Released(tr) == Held(tr) = <<>>

\* the probes and gate sub-checks of the call that has returned, each
\* taken alone, have released what they acquired
OperationsReleased ==
    /\ (op = "checkRoot") =>
          (Released(verifyProcessIntegrityTrace(sys.gate.cmdline)))
    /\ (op = "checkHook") =>
          (/\ Released(checkLoadedLibrariesTrace(sys.maps))
           /\ Released(checkFridaPortTrace(sys.tcp4, sys.tcp6))
           /\ Released(checkFridaThreadsTrace(sys.task))
           /\ Released(checkFridaInMemoryTrace(sys.maps))
           /\ Released(checkSuspiciousStringsTrace(sys.cmdline)))
    /\ (op = "checkDebugger") =>
          (/\ Released(checkTracerPidTrace(sys.status))
           /\ Released(checkPtraceAttachTrace(sys.status))
           /\ Released(checkAbnormalFdTrace(sys.fd)))
    /\ (op = "checkEmulator") =>
          (Released(checkEmulatorCpuTrace(sys.cpuinfo)))

\* C11: every file or directory handle a probe or a gate sub-check
\* acquires is released before the operation returns, on the early
\* returns too: whenever a call has returned, and between calls, the
\* engine holds no open handle.
C11_HandlesReleased ==
    (pc # "crashed") =>
        (/\ handles = 0
         /\ Released(trace)
         /\ OperationsReleased)

\* a hook check has returned early from the thread scan on a match, with
\* /proc/self/task and a comm file opened, and a failed open elsewhere
C11_Witness ==
    /\ pc = "returned"
    /\ op = "checkHook"
    /\ checkFridaThreads(sys.task)
    /\ Acquired(checkFridaThreadsTrace(sys.task)) >= 2
    /\ ~sys.tcp4.open
    /\ Acquired(trace) >= 4
    /\ handles = 0

---------------------------------------------------------------------------
(* checkInlineHook over instruction words *)

\* the low bytes tried besides 0 and 255 are 1..MaxLowByte
MaxLowByte == 1

LowBytes == {0, 255} \cup (1..MaxLowByte)

\* every top byte, with the three low bytes all equal to one of LowBytes
InlineWords == {Word(t, l, l, l) : t \in 0..255, l \in LowBytes}

InitInline ==
    /\ g_jvm = "null"
    /\ g_context = "null"
    /\ pc = "idle"
    /\ op = "input"
    /\ sys \in {[open |-> x] :
                  x \in {Unresolved} \cup {Sym(w) : w \in InlineWords}}
    /\ ret = "none"
    /\ called = {}
    /\ gate = "none"
    /\ trace = <<>>
    /\ handles = 0

\* the probe run on the word at the address of open
ProbeInlineHook ==
    /\ pc = "idle"
    /\ op = "input"
    /\ pc' = "returned"
    /\ op' = "checkInlineHook"
    /\ ret' = Bool(checkInlineHook(sys.open))
    /\ called' = {"checkInlineHook"}
    /\ UNCHANGED <<g_jvm, g_context, sys, gate, trace, handles>>

SpecInline == InitInline /\ [][ProbeInlineHook]_vars

\* A64 encodings, by bit field: B is 000101 in bits 31..26; LDR (literal,
\* 64-bit), the first instruction of a load-then-branch trampoline, is
\* 01011000 in bits 31..24.  bytes[4] holds bits 31..24.
IsUncondBranch(bytes) == bytes[4] \div 4 = 5
IsLoadLiteral(bytes) == bytes[4] = 88

\* C8: the word at the resolved address of open is classified as hooked
\* when it encodes an unconditional branch, and as not hooked when it is
\* neither an unconditional branch nor the load of a load-then-branch
\* trampoline.
C8_InlineHookClassification ==
    (op = "checkInlineHook" /\ sys.open.resolved) =>
       (/\ IsUncondBranch(sys.open.bytes) => (ret = "true")
        /\ (~IsUncondBranch(sys.open.bytes) /\ ~IsLoadLiteral(sys.open.bytes))
              => (ret = "false"))

\* C8 witness: a branch with a non-zero offset in its top byte (0x17ffffff)
\* has been classified as hooked.
C8_Witness ==
    /\ op = "checkInlineHook"
    /\ sys.open.resolved
    /\ sys.open.bytes = Word(23, 255, 255, 255)
    /\ ret = "true"

---------------------------------------------------------------------------
(* checkSuBinary over file-system states *)

\* at most MaxSuFiles of the su paths exist at once
MaxSuFiles == 2

\* st_mode values: -rw-r--r--, -rwxr-xr-x, -rw-r-xr-x, -rwsr-xr-x
SuModes == {33188, 33261, 33197, 35309}

SuFileStates ==
    UNION {{[p \in SuPaths |->
                IF p \in S THEN [exists |-> TRUE, mode |-> m[p]] ELSE Absent] :
              m \in [S -> SuModes]} :
           S \in {T \in SUBSET SuPaths : Cardinality(T) <= MaxSuFiles}}

InitSu ==
    /\ g_jvm = "null"
    /\ g_context = "null"
    /\ pc = "idle"
    /\ op = "input"
    /\ sys \in {[su |-> f] : f \in SuFileStates}
    /\ ret = "none"
    /\ called = {}
    /\ gate = "none"
    /\ trace = <<>>
    /\ handles = 0

\* the probe run on the file-system state
ProbeSuBinary ==
    /\ pc = "idle"
    /\ op = "input"
    /\ pc' = "returned"
    /\ op' = "checkSuBinary"
    /\ ret' = Bool(checkSuBinary(sys.su))
    /\ called' = {"checkSuBinary"}
    /\ UNCHANGED <<g_jvm, g_context, sys, gate, trace, handles>>

SpecSu == InitSu /\ [][ProbeSuBinary]_vars

\* the owner-execute permission bit (bit 6) of a mode
OwnerExec(mode) == (mode \div 64) % 2 = 1

\* C9: checkSuBinary returns true exactly when one of the fixed su paths
\* exists with its (owner) execute bit set; a su file that exists without
\* it yields false.
C9_SuBinary ==
    (op = "checkSuBinary") =>
       (ret = Bool(\E p \in SuPaths :
                      sys.su[p].exists /\ OwnerExec(sys.su[p].mode)))

\* C9 witness: a su file exists without the execute bit, none has it, and
\* the probe returned false.
C9_Witness ==
    /\ op = "checkSuBinary"
    /\ \E p \in SuPaths : sys.su[p].exists /\ ~OwnerExec(sys.su[p].mode)
    /\ ret = "false"

---------------------------------------------------------------------------
(* verifySoLoadPath over paths *)

\* the deepest path tried, in components
MaxPathDepth == 5

PathNames == {"data", "app", "tmp", PKG}

\* the absolute path /n1/n2/.../nk as tokens
AbsPath(names) ==
    [i \in 1..(2 * Len(names)) |->
        IF i % 2 = 1 THEN "/" ELSE names[i \div 2]]

Paths == {AbsPath(ns) : ns \in UNION {[1..k -> PathNames] : k \in 0..MaxPathDepth}}

InitSoPath ==
    /\ g_jvm = "null"
    /\ g_context = "null"
    /\ pc = "idle"
    /\ op = "input"
    /\ sys \in {[dl |-> d] :
                  d \in {[ok |-> FALSE, fnameNull |-> FALSE, fname |-> <<>>],
                         [ok |-> TRUE, fnameNull |-> TRUE, fname |-> <<>>]}
                        \cup {Dl(path) : path \in Paths}}
    /\ ret = "none"
    /\ called = {}
    /\ gate = "none"
    /\ trace = <<>>
    /\ handles = 0

\* the sub-check run on the result of dladdr
ProbeSoLoadPath ==
    /\ pc = "idle"
    /\ op = "input"
    /\ pc' = "returned"
    /\ op' = "verifySoLoadPath"
    /\ ret' = Bool(verifySoLoadPath(sys.dl))
    /\ called' = {}
    /\ UNCHANGED <<g_jvm, g_context, sys, gate, trace, handles>>

SpecSoPath == InitSoPath /\ [][ProbeSoLoadPath]_vars

\* C10 (as claimed): the load-path sub-check passes only for a resolved
\* path that lies under the installation directory (the directory leads
\* the path) and holds the package identifier.
C10_UnderInstallDir ==
    (op = "verifySoLoadPath" /\ ret = "true") =>
       (/\ sys.dl.ok
        /\ ~sys.dl.fnameNull
        /\ StartsWith(sys.dl.fname, DataAppDir)
        /\ Contains(sys.dl.fname, <<PKG>>))

===========================================================================
